---- MODULE Spec2Model ----
(***************************************************************************)
(* A model of retro_data_structures.asset_manager.AssetManager: the PAK    *)
(* index, the modification map, the ensured sets, the alias table, the     *)
(* fresh-id counter, the dependency cache and save_modifications.          *)
(*                                                                         *)
(* Asset ids are small naturals: the 32-bit ids of the games are scaled to  *)
(* 1, 2, ..., with the seed 0xFFFF0000 of the fresh-id counter above the   *)
(* ids the PAKs hold.  The string form str(id) of an id is the same        *)
(* natural used as a key of the alias table; the names the callers         *)
(* register are not the decimal form of an id and are the negative         *)
(* integers of Names.                                                      *)
(*                                                                         *)
(* _in_memory_paks is a cache of the provider's PAKs: a PAK is put in it   *)
(* as parsed from the provider and taken out of it by the save that        *)
(* rewrites it, so get_pak is modelled as a read of the provider's file.   *)
(*                                                                         *)
(* Spec is the sessions of MaxOps calls on ECHOES; LongSpec the sessions   *)
(* of MaxLongOps calls; CacheSpec adds get_dependencies_for_ancs and its   *)
(* per-character cache; GameSpec is the sessions on each game of Games     *)
(* that change assets and query the dependencies of any id.                *)
(*                                                                         *)
(* The second part models retro_data_structures.formats.mrea: the encoder  *)
(* and the decoder of the compressed blocks of an MREA, and the Area of an *)
(* MLVL with its layers and stored dependency lists.  Bytes are sequences  *)
(* of runs; the asset ids of the areas are their eight hexadecimal digits. *)
(* MreaSpec builds an MREA from up to MaxSections data sections and parses *)
(* what was built; AreaSpec is the sessions of MaxAreaOps calls on an area.*)
(***************************************************************************)
EXTENDS Integers, Sequences, FiniteSets, TLC

\* ------------------------------------------------------------------ bounds
\* generate_asset_id is not called once the counter is above this id.
MaxGeneratedId == 4
\* Number of AssetManager calls of one session.
MaxOps == 3
\* Number of AssetManager calls of one long session.
MaxLongOps == 4
\* Number of AssetManager calls of one session on a game of Games.
MaxGameOps == 3

\* ------------------------------------------------------- program constants
\* self._next_generated_id = 0xFFFF0000, scaled to the small id universe.
NextGeneratedIdSeed == 3

\* None, the value of a deleted asset in _modified_resources.
Tombstone == 0

\* ---------------------------------------------------------------- universes
AssetIds == {1, 2, 3}
Names == {-1}
PakNames == {"A.pak", "B.pak"}
UnknownPak == "X.pak"
Roots == {"provider", "out"}

\* The raw resources the callers supply and the PAKs hold.
Datas == {1, 2, 3}

Dep(t, a, x) == [type |-> t, id |-> a, exclude_for_mlvl |-> x]

\* RawResource.type of each resource.
DataType(d) == CASE d = 1 -> "TXTR" [] d = 2 -> "ANCS" [] OTHER -> "CMDL"

\* What the content references, in the order the format's dependencies_for
\* (or the byte-level scanner of dependency_cheating) yields it: resource 2
\* references asset 2, resource 3 references assets 3 and 2 (twice).
ContentDeps(d) ==
    CASE d = 2 -> << Dep("TXTR", 2, FALSE) >>
      [] d = 3 -> << Dep("ANCS", 3, FALSE), Dep("TXTR", 2, TRUE), Dep("TXTR", 2, FALSE) >>
      [] OTHER -> << >>

\* char_index of get_dependencies_for_ancs: None, or the index of a character
NoCharIndex == -1
CharIndices == {0, 1}

\* Ancs.ancs_dependencies_for(char_index) of the parsed resource: the
\* character 0 of resource 2 references asset 3.
AncsDependenciesFor(d, char_index) ==
    IF d = 2 /\ char_index = 0 THEN << Dep("CMDL", 3, FALSE) >> ELSE << >>

\* Game.special_ancs_dependencies(asset_id): the dependencies a game adds to
\* one of its ANCS assets.
special_ancs_dependencies(game, a) ==
    IF game = "ECHOES" /\ a = 1 THEN << Dep("TXTR", 2, FALSE) >> ELSE << >>

\* dependency_cheating.should_cheat_asset(type)
ShouldCheatAsset(t) == t = "CMDL"

\* formats.has_resource_type(type) and the format's has_dependencies(game)
HasDependencies(t) == t = "ANCS"

\* Game: the 32-bit games PRIME and ECHOES, the 64-bit game CORRUPTION
\* (PRIME_REMASTER, whose ids are GUIDs, is left out).
Games == {"PRIME", "ECHOES", "CORRUPTION"}

\* (1 << 32) - 1 and (1 << 64) - 1, scaled to the small id universe.
InvalidAssetId32 == 8
InvalidAssetId64 == 9

uses_asset_id_32(game) == game \in {"PRIME", "ECHOES"}

invalid_asset_id(game) ==
    IF uses_asset_id_32(game) THEN InvalidAssetId32 ELSE InvalidAssetId64

\* is_valid_asset_id without the test for 0
is_valid_asset_id_nonzero(game, a) == a # invalid_asset_id(game)

is_valid_asset_id(game, a) ==
    IF uses_asset_id_32(game) /\ a = 0 THEN FALSE
    ELSE a # invalid_asset_id(game)

\* 0x7b2ea5b1 for ECHOES, scaled to the small id universe.
mlvl_dependencies_to_ignore(game) == IF game = "ECHOES" THEN {2} ELSE {}

\* resolve_asset_id(game, value): an id is itself, a name is hashed to an id.
NameHash(n) == 2

\* ---------------------------------------------------------------- functions
EmptyFn == [x \in {} |-> 0]

\* f with key k bound to v (dict assignment)
Put(f, k, v) == [x \in (DOMAIN f) \cup {k} |-> IF x = k THEN v ELSE f[x]]

\* f without key k
Drop(f, k) == [x \in (DOMAIN f) \ {k} |-> f[x]]

VARIABLES
    target_game,        \* the Game the manager was built for
    disk,               \* root -> [paks: pak name -> (asset id -> data), names: <<>> or <<json>>]
    paks_for_asset_id,  \* asset id -> set of pak names
    types_for_asset_id, \* asset id -> type
    ensured_asset_ids,  \* pak name -> set of asset ids
    modified_resources, \* asset id -> data or Tombstone
    custom_asset_ids,   \* alias key -> asset id
    next_generated_id,
    cached_dependencies,\* asset id -> tuple of Dependency
    cached_ancs_per_char_dependencies, \* asset id -> (char index -> tuple of Dependency)
    first_written,      \* history: the tuple each cache entry held when it was written
    deleted,            \* history: asset id -> the PAKs that held it when delete_asset succeeded
    given,              \* history: asset id -> the data of the last replace_asset or
                        \* add_new_asset that returned, since the last delete_asset or save
    generated,          \* history: the values generate_asset_id returned, in order
    last,               \* history: the last call, its arguments and its outcome
    nops,               \* history: number of calls made
    budget,             \* the number of calls the session makes
    mrea,               \* the MREA being rebuilt: its section groups, what _build wrote
                        \* and what _parse read back
    area                \* the Area of an MLVL: its layers, its stored dependency lists

vars == << target_game, disk, paks_for_asset_id, types_for_asset_id, ensured_asset_ids,
           modified_resources, custom_asset_ids, next_generated_id,
           cached_dependencies, cached_ancs_per_char_dependencies, first_written,
           deleted, given, generated, last, nops, budget, mrea, area >>

\* The manager's fields as one record, so that a method is an operator from
\* the fields before the call to the fields after it.
Self ==
    [paks_for_asset_id |-> paks_for_asset_id,
     types_for_asset_id |-> types_for_asset_id,
     ensured_asset_ids |-> ensured_asset_ids,
     modified_resources |-> modified_resources,
     custom_asset_ids |-> custom_asset_ids,
     next_generated_id |-> next_generated_id,
     cached_dependencies |-> cached_dependencies,
     cached_ancs_per_char_dependencies |-> cached_ancs_per_char_dependencies]

\* ------------------------------------------------------------ file provider
\* json.dump that writes the ids as the names of the members
JsonDumpSwapped(f) == {<<f[k], k>> : k \in DOMAIN f}

\* json.dump of the alias table: the set of "name": id members of the object
JsonDump(f) == {<<k, f[k]>> : k \in DOMAIN f}

\* json.loads: the dict named by the members
JsonLoads(js) == [k \in {mb[1] : mb \in js} |-> (CHOOSE mb \in js : mb[1] = k)[2]]

\* _update_headers: the ensured sets, the header index and the alias table
\* are rebuilt from the files of self.provider.
UpdateHeaders(m, dk) ==
    LET paks == dk["provider"].paks
        all_paks == DOMAIN paks
        ids == UNION {DOMAIN paks[p] : p \in all_paks}
    IN [m EXCEPT
          !.ensured_asset_ids = [p \in all_paks |-> {}],
          !.paks_for_asset_id = [a \in ids |-> {p \in all_paks : a \in DOMAIN paks[p]}],
          !.types_for_asset_id =
              [a \in ids |-> DataType(paks[CHOOSE p \in all_paks : a \in DOMAIN paks[p]][a])],
          !.custom_asset_ids =
              IF dk["provider"].names = << >> THEN EmptyFn
              ELSE JsonLoads(dk["provider"].names[1])]

\* The fields of an AssetManager constructed on the files under root
NewManager(dk, root) ==
    UpdateHeaders([paks_for_asset_id |-> EmptyFn, types_for_asset_id |-> EmptyFn,
                   ensured_asset_ids |-> EmptyFn, modified_resources |-> EmptyFn,
                   custom_asset_ids |-> EmptyFn,
                   next_generated_id |-> NextGeneratedIdSeed,
                   cached_dependencies |-> EmptyFn,
                   cached_ancs_per_char_dependencies |-> EmptyFn],
                  [dk EXCEPT !["provider"] = dk[root]])

\* --------------------------------------------------------------- the queries
ResolveAssetId(m, k) ==
    IF k \in DOMAIN m.custom_asset_ids THEN m.custom_asset_ids[k]
    ELSE IF k \in Names THEN NameHash(k) ELSE k

\* does_asset_exists without the test for the tombstone
DoesAssetExistsNoTombstone(m, k) ==
    LET a == ResolveAssetId(m, k)
    IN a \in DOMAIN m.modified_resources \/ a \in DOMAIN m.paks_for_asset_id

DoesAssetExists(m, k) ==
    LET a == ResolveAssetId(m, k)
    IN IF a \in DOMAIN m.modified_resources
       THEN m.modified_resources[a] # Tombstone
       ELSE a \in DOMAIN m.paks_for_asset_id

\* The outcome of get_asset_type: [err, type]
GetAssetType(m, k) ==
    LET a == ResolveAssetId(m, k)
    IN IF a \in DOMAIN m.modified_resources
       THEN IF m.modified_resources[a] = Tombstone
            THEN [err |-> "ValueError", type |-> ""]
            ELSE [err |-> "", type |-> DataType(m.modified_resources[a])]
       ELSE IF a \in DOMAIN m.types_for_asset_id
            THEN [err |-> "", type |-> m.types_for_asset_id[a]]
            ELSE [err |-> "UnknownAssetId", type |-> ""]

\* get_raw_asset that reads the PAKs before the modification map
GetRawAssetPakFirst(m, dk, k) ==
    LET a == ResolveAssetId(m, k)
        paks == dk["provider"].paks
        holders == IF a \in DOMAIN m.paks_for_asset_id
                   THEN {p \in m.paks_for_asset_id[a] : a \in DOMAIN paks[p]} ELSE {}
    IN IF holders # {} THEN [err |-> "", data |-> paks[CHOOSE p \in holders : TRUE][a]]
       ELSE IF a \in DOMAIN m.modified_resources
       THEN IF m.modified_resources[a] = Tombstone
            THEN [err |-> "ValueError", data |-> Tombstone]
            ELSE [err |-> "", data |-> m.modified_resources[a]]
       ELSE [err |-> "UnknownAssetId", data |-> Tombstone]

\* The outcome of get_raw_asset: [err, data].  get_pak reads the PAK from the
\* provider; the PAK read first is the one the set iteration gives.  An id
\* mapped to no PAK falls out of the loop and None is returned.
GetRawAsset(m, dk, k) ==
    LET a == ResolveAssetId(m, k)
        paks == dk["provider"].paks
    IN IF a \in DOMAIN m.modified_resources
       THEN IF m.modified_resources[a] = Tombstone
            THEN [err |-> "ValueError", data |-> Tombstone]
            ELSE [err |-> "", data |-> m.modified_resources[a]]
       ELSE IF a \notin DOMAIN m.paks_for_asset_id
            THEN [err |-> "UnknownAssetId", data |-> Tombstone]
            ELSE LET holders == {p \in m.paks_for_asset_id[a] : a \in DOMAIN paks[p]}
                 IN IF holders = {}
                    THEN [err |-> "", data |-> Tombstone]
                    ELSE [err |-> "", data |-> paks[CHOOSE p \in holders : TRUE][a]]

\* _get_dependencies_for_asset that reads the dependencies anew on every call
GetDependenciesRawNoCache(m, dk, game, a, must_exist) ==
    IF ~is_valid_asset_id(game, a)
    THEN [raised |-> FALSE, deps |-> << >>, m |-> m]
    ELSE IF ~DoesAssetExists(m, a)
    THEN [raised |-> must_exist, deps |-> << >>, m |-> m]
    ELSE LET asset_type == GetAssetType(m, a).type
             deps == IF ShouldCheatAsset(asset_type) \/ HasDependencies(asset_type)
                     THEN ContentDeps(GetRawAsset(m, dk, a).data)
                     ELSE << >>
         IN [raised |-> FALSE,
             deps |-> Append(deps, Dep(asset_type, a, FALSE)),
             m |-> [m EXCEPT !.cached_dependencies = Put(m.cached_dependencies, a, deps)]]

\* _get_dependencies_for_asset that, on a miss, writes the tuple to the cache
\* and yields nothing of it
GetDependenciesRawLostOnMiss(m, dk, game, a, must_exist) ==
    IF ~is_valid_asset_id(game, a)
    THEN [raised |-> FALSE, deps |-> << >>, m |-> m]
    ELSE IF ~DoesAssetExists(m, a)
    THEN [raised |-> must_exist, deps |-> << >>, m |-> m]
    ELSE LET asset_type == GetAssetType(m, a).type
             dep_cache == m.cached_dependencies
             fresh == IF ShouldCheatAsset(asset_type) \/ HasDependencies(asset_type)
                      THEN ContentDeps(GetRawAsset(m, dk, a).data)
                      ELSE << >>
             deps == IF a \in DOMAIN dep_cache THEN dep_cache[a] ELSE << >>
         IN [raised |-> FALSE,
             deps |-> Append(deps, Dep(asset_type, a, FALSE)),
             m |-> IF a \in DOMAIN dep_cache THEN m
                   ELSE [m EXCEPT !.cached_dependencies = Put(dep_cache, a, fresh)]]

\* The outcome of _get_dependencies_for_asset: [raised, deps, m]
GetDependenciesRaw(m, dk, game, a, must_exist) ==
    IF ~is_valid_asset_id(game, a)
    THEN [raised |-> FALSE, deps |-> << >>, m |-> m]
    ELSE IF ~DoesAssetExists(m, a)
    THEN [raised |-> must_exist, deps |-> << >>, m |-> m]
    ELSE LET asset_type == GetAssetType(m, a).type
             dep_cache == m.cached_dependencies
             fresh == IF ShouldCheatAsset(asset_type)
                      THEN ContentDeps(GetRawAsset(m, dk, a).data)
                      ELSE IF HasDependencies(asset_type)
                      THEN ContentDeps(GetRawAsset(m, dk, a).data)
                      ELSE << >>
             deps == IF a \in DOMAIN dep_cache THEN dep_cache[a] ELSE fresh
         IN [raised |-> FALSE,
             deps |-> Append(deps, Dep(asset_type, a, FALSE)),
             m |-> IF a \in DOMAIN dep_cache THEN m
                   ELSE [m EXCEPT !.cached_dependencies = Put(dep_cache, a, deps)]]

\* get_dependencies_for_asset without the override
GetDependenciesWithoutOverride(m, dk, game, a, must_exist) ==
    GetDependenciesRaw(m, dk, game, a, must_exist)

\* get_dependencies_for_asset: the override of the ignore list on top.
GetDependenciesForAsset(m, dk, game, a, must_exist) ==
    LET override == a \in mlvl_dependencies_to_ignore(game)
        r == GetDependenciesRaw(m, dk, game, a, must_exist)
    IN [raised |-> r.raised,
        deps |-> [i \in 1..Len(r.deps) |->
                    Dep(r.deps[i].type, r.deps[i].id, r.deps[i].exclude_for_mlvl \/ override)],
        m |-> r.m]

\* The outcome of get_dependencies_for_ancs: [err, deps, m].  The lookup of
\* asset_id in the defaultdict binds it to an empty dict when it is not a key.
GetDependenciesForAncs(m, dk, game, a, char_index) ==
    IF ~is_valid_asset_id(game, a) THEN [err |-> "", deps |-> << >>, m |-> m]
    ELSE LET t == GetAssetType(m, a)
         IN IF t.err # "" THEN [err |-> t.err, deps |-> << >>, m |-> m]
            ELSE IF t.type # "ANCS" THEN [err |-> "ValueError", deps |-> << >>, m |-> m]
            ELSE IF char_index = NoCharIndex
            THEN LET g == GetDependenciesForAsset(m, dk, game, a, FALSE)
                 IN [err |-> "", deps |-> g.deps, m |-> g.m]
            ELSE LET cache == m.cached_ancs_per_char_dependencies
                     looked == IF a \in DOMAIN cache THEN cache ELSE Put(cache, a, EmptyFn)
                     fresh == special_ancs_dependencies(game, a)
                                \o AncsDependenciesFor(GetRawAsset(m, dk, a).data, char_index)
                     deps == IF char_index \in DOMAIN looked[a]
                             THEN looked[a][char_index] ELSE fresh
                 IN [err |-> "",
                     deps |-> Append(deps, Dep("ANCS", a, FALSE)),
                     m |-> [m EXCEPT !.cached_ancs_per_char_dependencies =
                               IF char_index \in DOMAIN looked[a] THEN looked
                               ELSE Put(looked, a, Put(looked[a], char_index, deps))]]

\* ------------------------------------------------------------- the mutators
\* Every mutator gives [err, m]: the exception raised ("" when none) and the
\* fields the call leaves behind, also when it raises.

RegisterCustomAssetName(m, name, a) ==
    IF DoesAssetExists(m, a) THEN [err |-> "ValueError", m |-> m]
    ELSE IF name \in DOMAIN m.custom_asset_ids /\ m.custom_asset_ids[name] # a
    THEN [err |-> "ValueError", m |-> m]
    ELSE [err |-> "",
          m |-> [m EXCEPT !.custom_asset_ids = Put(m.custom_asset_ids, name, a)]]

\* The outcome of generate_asset_id: [ret, m]
GenerateAssetId(m) ==
    LET top == m.next_generated_id + Cardinality(DOMAIN m.paks_for_asset_id)
                                   + Cardinality(DOMAIN m.modified_resources)
        result == CHOOSE r \in m.next_generated_id..top :
                      /\ ~DoesAssetExists(m, r)
                      /\ \A q \in m.next_generated_id..(r - 1) : DoesAssetExists(m, q)
    IN [ret |-> result, m |-> [m EXCEPT !.next_generated_id = result + 1]]

\* replace_asset without the test that the asset exists
ReplaceAssetUnchecked(m, k, new_data) ==
    [err |-> "",
     m |-> [m EXCEPT !.modified_resources =
                        Put(m.modified_resources, ResolveAssetId(m, k), new_data)]]

ReplaceAsset(m, k, new_data) ==
    LET a == ResolveAssetId(m, k)
    IN IF ~DoesAssetExists(m, a) THEN [err |-> "UnknownAssetId", m |-> m]
       ELSE [err |-> "",
             m |-> [m EXCEPT !.modified_resources = Put(m.modified_resources, a, new_data)]]

\* delete_asset that takes the id out of the modification map
DeleteAssetDropKey(m, k) ==
    LET a == ResolveAssetId(m, k)
    IN IF ~DoesAssetExists(m, a) THEN [err |-> "UnknownAssetId", m |-> m]
       ELSE [err |-> "",
             m |-> [m EXCEPT
                      !.modified_resources = Drop(m.modified_resources, a),
                      !.ensured_asset_ids =
                          [p \in DOMAIN m.ensured_asset_ids |-> m.ensured_asset_ids[p] \ {a}]]]

\* delete_asset without the loop over the ensured sets
DeleteAssetKeepEnsured(m, k) ==
    LET a == ResolveAssetId(m, k)
    IN IF ~DoesAssetExists(m, a) THEN [err |-> "UnknownAssetId", m |-> m]
       ELSE [err |-> "",
             m |-> [m EXCEPT !.modified_resources = Put(m.modified_resources, a, Tombstone)]]

DeleteAsset(m, k) ==
    LET a == ResolveAssetId(m, k)
    IN IF ~DoesAssetExists(m, a) THEN [err |-> "UnknownAssetId", m |-> m]
       ELSE [err |-> "",
             m |-> [m EXCEPT
                      !.modified_resources = Put(m.modified_resources, a, Tombstone),
                      !.ensured_asset_ids =
                          [p \in DOMAIN m.ensured_asset_ids |-> m.ensured_asset_ids[p] \ {a}]]]

\* ensure_present recurses into the dependencies of the asset.  `path` holds
\* the ids of the calls in progress: a call on an id of the path repeats the
\* frame that is already on the stack with the same fields, so the recursion
\* never returns and the interpreter raises RecursionError.
RECURSIVE EnsurePresent(_, _, _, _, _, _)
RECURSIVE EnsureDependencies(_, _, _, _, _, _, _, _)

\* ensure_present without the test that the PAK already has the asset
EnsurePresentAlwaysAdd(m, dk, game, pak_name, k, path) ==
    IF pak_name \notin DOMAIN m.ensured_asset_ids
    THEN [err |-> "ValueError", m |-> m]
    ELSE LET a == ResolveAssetId(m, k)
         IN IF ~DoesAssetExists(m, a) THEN [err |-> "UnknownAssetId", m |-> m]
            ELSE IF a \in path THEN [err |-> "RecursionError", m |-> m]
            ELSE LET m1 == [m EXCEPT !.ensured_asset_ids[pak_name] = @ \cup {a}]
                     g == GetDependenciesForAsset(m1, dk, game, a, FALSE)
                 IN EnsureDependencies(g.m, dk, game, pak_name, a, g.deps, 1, path \cup {a})

EnsurePresent(m, dk, game, pak_name, k, path) ==
    IF pak_name \notin DOMAIN m.ensured_asset_ids
    THEN [err |-> "ValueError", m |-> m]
    ELSE LET a == ResolveAssetId(m, k)
         IN IF ~DoesAssetExists(m, a) THEN [err |-> "UnknownAssetId", m |-> m]
            ELSE IF a \notin DOMAIN m.paks_for_asset_id THEN [err |-> "KeyError", m |-> m]
            ELSE IF a \in path THEN [err |-> "RecursionError", m |-> m]
            ELSE LET m1 == IF pak_name \notin m.paks_for_asset_id[a]
                           THEN [m EXCEPT !.ensured_asset_ids[pak_name] = @ \cup {a}]
                           ELSE m
                     g == GetDependenciesForAsset(m1, dk, game, a, FALSE)
                 IN EnsureDependencies(g.m, dk, game, pak_name, a, g.deps, 1, path \cup {a})

\* ensure_present without the loop over the dependencies
EnsureDependenciesNone(m, dk, game, pak_name, a, deps, i, path) == [err |-> "", m |-> m]

\* The loop over the dependencies, from the i-th on.
EnsureDependencies(m, dk, game, pak_name, a, deps, i, path) ==
    IF i > Len(deps) THEN [err |-> "", m |-> m]
    ELSE IF deps[i].id = a
    THEN EnsureDependencies(m, dk, game, pak_name, a, deps, i + 1, path)
    ELSE LET r == EnsurePresent(m, dk, game, pak_name, deps[i].id, path)
         IN IF r.err # "" THEN r
            ELSE EnsureDependencies(r.m, dk, game, pak_name, a, deps, i + 1, path)

\* The loop of add_new_asset over in_paks, from the i-th on.
RECURSIVE EnsureInPaks(_, _, _, _, _, _)
EnsureInPaks(m, dk, game, in_paks, a, i) ==
    IF i > Len(in_paks) THEN [err |-> "", m |-> m]
    ELSE LET r == EnsurePresent(m, dk, game, in_paks[i], a, {})
         IN IF r.err # "" THEN r
            ELSE EnsureInPaks(r.m, dk, game, in_paks, a, i + 1)

AddNewAsset(m, dk, game, name, new_data, in_paks) ==
    LET a == ResolveAssetId(m, name)
    IN IF DoesAssetExists(m, a) THEN [err |-> "ValueError", m |-> m]
       ELSE LET m1 == [m EXCEPT
                         !.custom_asset_ids = Put(m.custom_asset_ids, name, a),
                         !.paks_for_asset_id = Put(m.paks_for_asset_id, a, {})]
                r == ReplaceAsset(m1, name, new_data)
            IN IF r.err # "" THEN r
               ELSE EnsureInPaks(r.m, dk, game, in_paks, a, 1)

\* ------------------------------------------------------------------ the PAK
\* Pak.replace_asset, Pak.remove_asset and Pak.add_asset on the entries of a
\* parsed PAK (asset id -> data).
PakReplaceAsset(pak, a, raw) == IF a \in DOMAIN pak THEN Put(pak, a, raw) ELSE pak

PakRemoveAsset(pak, a) == Drop(pak, a)

PakAddAsset(pak, a, raw) == Put(pak, a, raw)

\* The PAK save_modifications builds for pak_name.
UpdatedPak(m, dk, pak_name) ==
    LET pak == dk["provider"].paks[pak_name]
        mods == {a \in DOMAIN m.modified_resources : pak_name \in m.paks_for_asset_id[a]}
        modified == [a \in (DOMAIN pak) \ {x \in mods : m.modified_resources[x] = Tombstone} |->
                        IF a \in mods THEN PakReplaceAsset(pak, a, m.modified_resources[a])[a]
                        ELSE pak[a]]
        copies == m.ensured_asset_ids[pak_name]
    IN [a \in (DOMAIN modified) \cup copies |->
          IF a \in copies THEN PakAddAsset(modified, a, GetRawAsset(m, dk, a).data)[a]
          ELSE modified[a]]

\* The outcome of save_modifications(output_path): [err, m, disk, written]
SaveModifications(m, dk, output_path) ==
    LET keys == DOMAIN m.modified_resources
        ensured == UNION {m.ensured_asset_ids[p] : p \in DOMAIN m.ensured_asset_ids}
    IN IF \E a \in keys : a \notin DOMAIN m.paks_for_asset_id
       THEN [err |-> "KeyError", m |-> m, disk |-> dk, written |-> {}]
       ELSE IF \E a \in ensured : GetRawAsset(m, dk, a).err # ""
       THEN [err |-> "ValueError", m |-> m, disk |-> dk, written |-> {}]
       ELSE LET modified_paks == UNION {m.paks_for_asset_id[a] : a \in keys}
                old == dk[output_path].paks
                new_paks == [p \in (DOMAIN old) \cup modified_paks |->
                               IF p \in modified_paks THEN UpdatedPak(m, dk, p) ELSE old[p]]
                dk1 == [dk EXCEPT ![output_path] =
                          [paks |-> new_paks, names |-> << JsonDump(m.custom_asset_ids) >>]]
                m1 == [m EXCEPT !.modified_resources = EmptyFn]
            IN [err |-> "", m |-> UpdateHeaders(m1, dk1), disk |-> dk1,
                written |-> modified_paks]

\* ----------------------------------------------------------------- the calls
\* What the callers pass: an id or a name, a resource, PAK names.
Keys == AssetIds \cup Names
InPaks == { << "A.pak" >>, << "B.pak", "A.pak" >>, << "A.pak", UnknownPak >> }

\* The files of the provider a session starts from: asset 1 references
\* asset 2; asset 2 is held by B.pak only, or by both PAKs.
InitialPaks ==
    { [p \in PakNames |-> IF p = "A.pak" THEN (1 :> 2) ELSE (2 :> 1)],
      [p \in PakNames |-> IF p = "A.pak" THEN (1 :> 2) @@ (2 :> 1) ELSE (2 :> 1)] }

NoFiles == [paks |-> EmptyFn, names |-> << >>]

\* f, with the keys of g that f does not have bound as g binds them
KeepFirst(f, g) ==
    [x \in (DOMAIN f) \cup (DOMAIN g) |-> IF x \in DOMAIN f THEN f[x] ELSE g[x]]

\* The fields after a call
Commit(m) ==
    /\ paks_for_asset_id' = m.paks_for_asset_id
    /\ types_for_asset_id' = m.types_for_asset_id
    /\ ensured_asset_ids' = m.ensured_asset_ids
    /\ modified_resources' = m.modified_resources
    /\ custom_asset_ids' = m.custom_asset_ids
    /\ next_generated_id' = m.next_generated_id
    /\ cached_dependencies' = m.cached_dependencies
    /\ cached_ancs_per_char_dependencies' = m.cached_ancs_per_char_dependencies
    /\ first_written' =
          [deps |-> KeepFirst(first_written.deps, m.cached_dependencies),
           ancs |-> [a \in DOMAIN m.cached_ancs_per_char_dependencies |->
                       KeepFirst(IF a \in DOMAIN first_written.ancs
                                 THEN first_written.ancs[a] ELSE EmptyFn,
                                 m.cached_ancs_per_char_dependencies[a])]]

\* No MREA and no area are open in the sessions of the manager alone.
NoMrea == [phase |-> "none"]

NoArea == [phase |-> "none"]

\* AssetManager.__init__ on a provider and a game, for a session of n calls
GameSession(game, n) ==
    /\ budget = n
    /\ target_game = game
    /\ \E paks \in InitialPaks :
          /\ disk = [r \in Roots |-> IF r = "provider"
                                     THEN [paks |-> paks, names |-> << >>]
                                     ELSE NoFiles]
          /\ LET m == UpdateHeaders(
                        [paks_for_asset_id |-> EmptyFn, types_for_asset_id |-> EmptyFn,
                         ensured_asset_ids |-> EmptyFn, modified_resources |-> EmptyFn,
                         custom_asset_ids |-> EmptyFn,
                         next_generated_id |-> NextGeneratedIdSeed,
                         cached_dependencies |-> EmptyFn,
                         cached_ancs_per_char_dependencies |-> EmptyFn], disk)
             IN /\ paks_for_asset_id = m.paks_for_asset_id
                /\ types_for_asset_id = m.types_for_asset_id
                /\ ensured_asset_ids = m.ensured_asset_ids
                /\ modified_resources = m.modified_resources
                /\ custom_asset_ids = m.custom_asset_ids
                /\ next_generated_id = m.next_generated_id
                /\ cached_dependencies = m.cached_dependencies
                /\ cached_ancs_per_char_dependencies = m.cached_ancs_per_char_dependencies
    /\ first_written = [deps |-> EmptyFn, ancs |-> EmptyFn]
    /\ deleted = EmptyFn
    /\ given = EmptyFn
    /\ generated = << >>
    /\ last = [op |-> "init", err |-> ""]
    /\ nops = 0
    /\ mrea = NoMrea
    /\ area = NoArea

Session(n) == GameSession("ECHOES", n)

Init == Session(MaxOps)

GameInit == \E game \in Games : GameSession(game, MaxGameOps)

LongInit == Session(MaxLongOps)

Call == /\ nops < budget
        /\ nops' = nops + 1
        /\ target_game' = target_game
        /\ budget' = budget
        /\ UNCHANGED << mrea, area >>

\* What is recorded of a call: its name and the exception it raised, and its
\* arguments when it returned.
Outcome(op, err, args) ==
    IF err = "" THEN [op |-> op, err |-> err, args |-> args] ELSE [op |-> op, err |-> err]

\* The PAKs of the provider that hold asset id a
HoldersOf(dk, a) == {p \in DOMAIN dk["provider"].paks : a \in DOMAIN dk["provider"].paks[p]}

CallRegisterCustomAssetName ==
    \E name \in Names, a \in AssetIds :
        LET r == RegisterCustomAssetName(Self, name, a)
        IN /\ Call
           /\ Commit(r.m)
           /\ last' = Outcome("register_custom_asset_name", r.err, [name |-> name, id |-> a])
           /\ UNCHANGED << disk, deleted, given, generated >>

CallGenerateAssetId ==
    /\ next_generated_id <= MaxGeneratedId
    /\ LET r == GenerateAssetId(Self)
       IN /\ Call
          /\ Commit(r.m)
          /\ last' = [op |-> "generate_asset_id", err |-> "", ret |-> r.ret,
                      was_key |-> r.ret \in (DOMAIN paks_for_asset_id)
                                            \cup (DOMAIN modified_resources)]
          /\ generated' = Append(generated, r.ret)
          /\ UNCHANGED << disk, deleted, given >>

CallReplaceAsset ==
    \E k \in Keys, d \in Datas :
        LET r == ReplaceAsset(Self, k, d)
        IN /\ Call
           /\ Commit(r.m)
           /\ last' = Outcome("replace_asset", r.err,
                               [id |-> ResolveAssetId(Self, k), data |-> d])
           /\ given' = IF r.err = "" THEN Put(given, ResolveAssetId(Self, k), d) ELSE given
           /\ UNCHANGED << disk, deleted, generated >>

CallDeleteAsset ==
    \E k \in Keys :
        LET r == DeleteAsset(Self, k)
            a == ResolveAssetId(Self, k)
        IN /\ Call
           /\ Commit(r.m)
           /\ last' = Outcome("delete_asset", r.err,
                               [id |-> a,
                                ensured_in |-> {p \in DOMAIN ensured_asset_ids :
                                                   a \in ensured_asset_ids[p]}])
           /\ deleted' = IF r.err = "" THEN Put(deleted, a, HoldersOf(disk, a)) ELSE deleted
           /\ given' = IF r.err = "" THEN Drop(given, a) ELSE given
           /\ UNCHANGED << disk, generated >>

CallEnsurePresent ==
    \E pak_name \in PakNames \cup {UnknownPak}, k \in Keys :
        LET r == EnsurePresent(Self, disk, target_game, pak_name, k, {})
        IN /\ Call
           /\ Commit(r.m)
           /\ last' = Outcome("ensure_present", r.err,
                               [pak |-> pak_name, id |-> ResolveAssetId(Self, k),
                                before |-> ensured_asset_ids])
           /\ UNCHANGED << disk, deleted, given, generated >>

CallAddNewAsset ==
    \E k \in Keys, d \in Datas, in_paks \in InPaks :
        LET r == AddNewAsset(Self, disk, target_game, k, d, in_paks)
        IN /\ Call
           /\ Commit(r.m)
           /\ last' = Outcome("add_new_asset", r.err,
                               [id |-> ResolveAssetId(Self, k), data |-> d, in_paks |-> in_paks])
           /\ given' = IF r.err = "" THEN Put(given, ResolveAssetId(Self, k), d) ELSE given
           /\ UNCHANGED << disk, deleted, generated >>

CallGetDependenciesForAsset ==
    \E a \in AssetIds, must_exist \in BOOLEAN :
        LET r == GetDependenciesForAsset(Self, disk, target_game, a, must_exist)
        IN /\ Call
           /\ Commit(r.m)
           /\ last' = Outcome("get_dependencies_for_asset",
                               IF r.raised THEN "UnknownAssetId" ELSE "",
                               [id |-> a, must_exist |-> must_exist, deps |-> r.deps])
           /\ UNCHANGED << disk, deleted, given, generated >>

CallGetDependenciesForAncs ==
    \E a \in AssetIds, char_index \in {NoCharIndex} \cup CharIndices :
        LET r == GetDependenciesForAncs(Self, disk, target_game, a, char_index)
        IN /\ Call
           /\ Commit(r.m)
           /\ last' = Outcome("get_dependencies_for_ancs", r.err,
                               [id |-> a, char_index |-> char_index, deps |-> r.deps])
           /\ UNCHANGED << disk, deleted, given, generated >>

\* The ids asked for: those of the assets, 0, and the invalid ids of the games
QueryIds == AssetIds \cup {0, InvalidAssetId32, InvalidAssetId64}

\* get_dependencies_for_asset on any id; the call is recorded when it raises too.
CallGetDependenciesForId ==
    \E a \in QueryIds, must_exist \in BOOLEAN :
        LET r == GetDependenciesForAsset(Self, disk, target_game, a, must_exist)
        IN /\ Call
           /\ Commit(r.m)
           /\ last' = [op |-> "get_dependencies_for_asset",
                       err |-> IF r.raised THEN "UnknownAssetId" ELSE "",
                       args |-> [id |-> a, must_exist |-> must_exist, deps |-> r.deps,
                                 hit |-> a \in DOMAIN cached_dependencies]]
           /\ UNCHANGED << disk, deleted, given, generated >>

CallSaveModifications ==
    \E output_path \in Roots :
        LET r == SaveModifications(Self, disk, output_path)
        IN /\ Call
           /\ Commit(r.m)
           /\ disk' = r.disk
           /\ last' = Outcome("save_modifications", r.err,
                               [out |-> output_path, written |-> r.written])
           /\ deleted' = IF r.err = "" THEN EmptyFn ELSE deleted
           /\ given' = IF r.err = "" THEN EmptyFn ELSE given
           /\ UNCHANGED generated

Next ==
    \/ CallRegisterCustomAssetName
    \/ CallGenerateAssetId
    \/ CallReplaceAsset
    \/ CallDeleteAsset
    \/ CallEnsurePresent
    \/ CallAddNewAsset
    \/ CallGetDependenciesForAsset
    \/ CallSaveModifications

Spec == Init /\ [][Next]_vars

\* The sessions of one call more
LongSpec == LongInit /\ [][Next]_vars

\* The sessions that also query the dependencies of the characters of an ANCS
CacheNext ==
    \/ Next
    \/ CallGetDependenciesForAncs

CacheSpec == Init /\ [][CacheNext]_vars

\* The sessions on each game that change assets and query dependencies
GameNext ==
    \/ CallReplaceAsset
    \/ CallDeleteAsset
    \/ CallAddNewAsset
    \/ CallGetDependenciesForId
    \/ CallSaveModifications

GameSpec == GameInit /\ [][GameNext]_vars

\* ------------------------------------------------ bytes of the MREA sections
\* A bytes object is a sequence of runs: run [n, b, z] is n bytes of value b.
\* A run of b = LzoChunk is the n bytes LZO made of the bytes z, and a part of
\* such a run is n bytes of value Corrupt, which LZO does not decompress.
LzoChunk == -1

Corrupt == -2

Run(n, b, z) == [n |-> n, b |-> b, z |-> z]

\* bytes([b]) * n
Bytes(n, b) == IF n = 0 THEN << >> ELSE << Run(n, b, << >>) >>

\* len(data)
RECURSIVE BytesLen(_)
BytesLen(data) == IF data = << >> THEN 0 ELSE Head(data).n + BytesLen(Tail(data))

\* s + t
Concat(s, t) ==
    IF s = << >> THEN t
    ELSE IF t = << >> THEN s
    ELSE LET a == s[Len(s)]
             b == Head(t)
         IN IF a.b = b.b /\ a.b >= 0
            THEN SubSeq(s, 1, Len(s) - 1) \o << Run(a.n + b.n, a.b, << >>) >> \o Tail(t)
            ELSE s \o t

\* The first n bytes of run r
Cut(r, n) == IF r.b >= 0 THEN Run(n, r.b, << >>) ELSE Run(n, Corrupt, << >>)

\* data[:k]
RECURSIVE TakeBytes(_, _)
TakeBytes(data, k) ==
    IF k = 0 \/ data = << >> THEN << >>
    ELSE IF Head(data).n <= k
         THEN Concat(<< Head(data) >>, TakeBytes(Tail(data), k - Head(data).n))
         ELSE << Cut(Head(data), k) >>

\* data[k:]
RECURSIVE DropBytes(_, _)
DropBytes(data, k) ==
    IF k = 0 \/ data = << >> THEN data
    ELSE IF Head(data).n <= k
         THEN DropBytes(Tail(data), k - Head(data).n)
         ELSE << Cut(Head(data), Head(data).n - k) >> \o Tail(data)

\* data[offset: offset + size]
Slice(data, offset, size) == TakeBytes(DropBytes(data, offset), size)

\* -n % 32, the bytes that align n bytes to 32
PadLength(n) == (32 - (n % 32)) % 32

\* item.ljust(len(item) + (-len(item) % 32), b"\x00")
Ljust32(item) == Concat(item, Bytes(PadLength(BytesLen(item)), 0))

\* ------------------------------------------------- MREA compressed blocks
\* Largest number of data sections of one MREA.
MaxSections == 3

\* 0x20000, the payload above which _start_new_group closes the group
MaxBlockSize == 131072

\* 0x120, added to buffer_size of a block that is stored compressed
ScratchAllowance == 288

\* _all_categories, in the order of the header: a group before the script
\* layers, the two script groups, a group after them.
AllCategories == << "geometry_section", "script_layers_section",
                    "generated_script_objects_section", "collision_section" >>

CategoryIndex(label) == CHOOSE i \in 1..Len(AllCategories) : AllCategories[i] = label

\* The lengths of the sections: none, unaligned, small, half a block, more
\* than a block.
SectionSizes == {0, 40, 64, 65536, 131104}

\* How well LZO does on a payload.
LzoProfiles == {"flat", "half", "stored"}

\* The length of what LZO makes of n bytes
LzoLength(n, z) ==
    IF n = 0 THEN 0
    ELSE IF z = "flat" THEN 20
    ELSE IF z = "half" THEN (n \div 2) + 8
    ELSE n + 3

\* LZOCompressedBlock(uncompressed_size)._build(data): the codec of a payload
\* of uncompressed_size bytes; data of another length is refused.
LZOCompressedBlockBuild(uncompressed_size, data, z) ==
    IF BytesLen(data) # uncompressed_size
    THEN [err |-> "ValueError", data |-> << >>]
    ELSE [err |-> "",
          data |-> IF data = << >> THEN << >>
                   ELSE << Run(LzoLength(BytesLen(data), z), LzoChunk, data) >>]

\* LZOCompressedBlock(uncompressed_size)._parse(data)
LZOCompressedBlockParse(uncompressed_size, data) ==
    IF data = << >> /\ uncompressed_size = 0 THEN [err |-> "", data |-> << >>]
    ELSE IF Len(data) = 1 /\ data[1].b = LzoChunk THEN [err |-> "", data |-> data[1].z]
    ELSE [err |-> "ConstructError", data |-> << >>]

\* DataSection(GreedyBytes, size=Computed(n))._build(data): the payload,
\* padded to 32 bytes
DataSectionBuild(data) == Ljust32(data)

\* DataSection(GreedyBytes, size=Computed(n))._parse(data): a run of n bytes
DataSectionParse(n, data) ==
    IF BytesLen(data) < n THEN [err |-> "StreamError", data |-> << >>]
    ELSE [err |-> "", data |-> TakeBytes(data, n)]

\* The size of the payload, without the bytes that align it
GetCompressedBlockSizeUnaligned(header) ==
    IF header.compressed_size = 0 THEN header.uncompressed_size
    ELSE header.compressed_size

GetCompressedBlockSize(header) ==
    IF header.compressed_size = 0 THEN header.uncompressed_size
    ELSE header.compressed_size + PadLength(header.compressed_size)

StartNewGroup(group_size, section_size, curr_label, prev_label) ==
    IF group_size = 0 THEN FALSE
    ELSE IF group_size + section_size > MaxBlockSize THEN TRUE
    ELSE IF curr_label = "script_layers_section" THEN TRUE
    ELSE IF prev_label = "script_layers_section" THEN TRUE
    ELSE IF curr_label = "generated_script_objects_section" THEN TRUE
    ELSE IF prev_label = "generated_script_objects_section" THEN TRUE
    ELSE FALSE

\* b"".join(item.ljust(...) for item in current_group)
RECURSIVE MergedAndPadded(_)
MergedAndPadded(group) ==
    IF group = << >> THEN << >>
    ELSE Concat(Ljust32(Head(group)), MergedAndPadded(Tail(group)))

\* add_group: the block of the current group
AddGroup(current_group, current_group_size, z) ==
    LET merged_and_padded_group == MergedAndPadded(current_group)
        lzo == LZOCompressedBlockBuild(current_group_size, merged_and_padded_group, z)
        compressed_size == BytesLen(lzo.data)
        compressed_pad == (32 - (compressed_size % 32)) % 32
        compressed == compressed_size + compressed_pad < current_group_size
    IN [err |-> lzo.err,
        block |->
          [header |-> [buffer_size |-> IF compressed
                                       THEN current_group_size + ScratchAllowance
                                       ELSE current_group_size,
                       uncompressed_size |-> current_group_size,
                       compressed_size |-> IF compressed THEN compressed_size ELSE 0,
                       data_section_count |-> Len(current_group)],
           data |-> IF compressed THEN lzo.data ELSE merged_and_padded_group]]

\* [cat for cat, start in category_starts.items() if i >= start], the
\* categories sorted by start
AllGarbage(category_starts, i) == {cat \in DOMAIN category_starts : i >= category_starts[cat]}

\* all_garbage[-1]
LastCategory(category_starts, i) ==
    LET all_garbage == AllGarbage(category_starts, i)
    IN CHOOSE cat \in all_garbage :
          \A other \in all_garbage :
             \/ category_starts[other] < category_starts[cat]
             \/ /\ category_starts[other] = category_starts[cat]
                /\ CategoryIndex(other) <= CategoryIndex(cat)

\* The loop of _encode_compressed_blocks from section i on (i counts from 1)
RECURSIVE EncodeFrom(_, _, _, _, _, _, _, _)
EncodeFrom(data_sections, category_starts, z, i, current_group, current_group_size, previous_label, compressed_blocks) ==
    IF i > Len(data_sections)
    THEN LET g == AddGroup(current_group, current_group_size, z)
         IN IF g.err # "" THEN [err |-> g.err, blocks |-> << >>]
            ELSE [err |-> "", blocks |-> Append(compressed_blocks, g.block)]
    ELSE IF AllGarbage(category_starts, i - 1) = {}
    THEN [err |-> "IndexError", blocks |-> << >>]
    ELSE LET section == data_sections[i]
             cat_label == LastCategory(category_starts, i - 1)
             start_new == StartNewGroup(current_group_size, BytesLen(section),
                                        previous_label, cat_label)
             g == AddGroup(current_group, current_group_size, z)
         IN IF start_new /\ g.err # "" THEN [err |-> g.err, blocks |-> << >>]
            ELSE EncodeFrom(data_sections, category_starts, z, i + 1,
                            IF start_new THEN << section >>
                            ELSE Append(current_group, section),
                            IF start_new THEN BytesLen(section)
                            ELSE current_group_size + BytesLen(section),
                            cat_label,
                            IF start_new THEN Append(compressed_blocks, g.block)
                            ELSE compressed_blocks)

EncodeCompressedBlocks(data_sections, category_starts, z) ==
    EncodeFrom(data_sections, category_starts, z, 1, << >>, 0, "", << >>)

\* PrefixedWithPaddingBefore(Computed(length), GreedyBytes)._build(data)
PrefixedWithPaddingBeforeBuild(data) ==
    LET length == BytesLen(data)
        bytes_to_pad == 32 - (length % 32)
    IN IF bytes_to_pad < 32 THEN Concat(Bytes(bytes_to_pad, 0), data) ELSE data

\* A parse that takes the padding to follow the data
PrefixedWithPaddingAfterParse(length, uncompressed_size, data) ==
    IF BytesLen(data) < length
    THEN [err |-> "StreamError", data |-> << >>]
    ELSE LZOCompressedBlockParse(uncompressed_size, Slice(data, 0, length))

\* PrefixedWithPaddingBefore(Computed(length), LZOCompressedBlock(n))._parse(data)
PrefixedWithPaddingBeforeParse(length, uncompressed_size, data) ==
    LET bytes_to_pad == 32 - (length % 32)
        skipped == IF bytes_to_pad < 32 THEN bytes_to_pad ELSE 0
    IN IF BytesLen(data) < skipped + length
       THEN [err |-> "StreamError", data |-> << >>]
       ELSE LZOCompressedBlockParse(uncompressed_size, Slice(data, skipped, length))

\* _get_compressed_block_subcon(compressed_size, uncompressed_size)._parse(data)
CompressedBlockSubconParse(compressed_size, uncompressed_size, data) ==
    IF compressed_size # 0
    THEN PrefixedWithPaddingBeforeParse(compressed_size, uncompressed_size, data)
    ELSE DataSectionParse(uncompressed_size, data)

\* The payloads of the blocks, each read by
\* Aligned(32, FixedSized(_get_compressed_block_size(header), GreedyBytes))
RECURSIVE ReadCompressedBlocks(_, _)
ReadCompressedBlocks(compressed_block_headers, stream) ==
    IF compressed_block_headers = << >> THEN [err |-> "", blocks |-> << >>]
    ELSE LET size == GetCompressedBlockSize(Head(compressed_block_headers))
             aligned == size + PadLength(size)
         IN IF BytesLen(stream) < aligned THEN [err |-> "StreamError", blocks |-> << >>]
            ELSE LET rest == ReadCompressedBlocks(Tail(compressed_block_headers),
                                                  DropBytes(stream, aligned))
                 IN IF rest.err # "" THEN rest
                    ELSE [err |-> "", blocks |-> << TakeBytes(stream, size) >> \o rest.blocks]

\* for i in range(data_section_count): the sections of one decompressed block
RECURSIVE SplitBlock(_, _, _, _, _)
SplitBlock(decompressed_block, data_section_count, data_section_sizes, offset, data_sections) ==
    IF data_section_count = 0 THEN [err |-> "", sections |-> data_sections]
    ELSE IF Len(data_sections) + 1 > Len(data_section_sizes)
    THEN [err |-> "IndexError", sections |-> << >>]
    ELSE LET section_size == data_section_sizes[Len(data_sections) + 1]
         IN SplitBlock(decompressed_block, data_section_count - 1, data_section_sizes,
                       offset + section_size,
                       Append(data_sections, Slice(decompressed_block, offset, section_size)))

\* The loop of _decode_compressed_blocks over the headers and the payloads
RECURSIVE DecodeFrom(_, _, _, _)
DecodeFrom(compressed_block_headers, compressed_blocks, data_section_sizes, data_sections) ==
    IF compressed_block_headers = << >> THEN [err |-> "", sections |-> data_sections]
    ELSE LET compressed_header == Head(compressed_block_headers)
             parsed == CompressedBlockSubconParse(compressed_header.compressed_size,
                                                  compressed_header.uncompressed_size,
                                                  Head(compressed_blocks))
         IN IF parsed.err # "" THEN [err |-> parsed.err, sections |-> << >>]
            ELSE IF BytesLen(parsed.data) # compressed_header.uncompressed_size
            THEN [err |-> "ConstructError", sections |-> << >>]
            ELSE LET split == SplitBlock(parsed.data, compressed_header.data_section_count,
                                         data_section_sizes, 0, data_sections)
                 IN IF split.err # "" THEN split
                    ELSE DecodeFrom(Tail(compressed_block_headers), Tail(compressed_blocks),
                                    data_section_sizes, split.sections)

DecodeCompressedBlocks(compressed_block_headers, data_section_sizes, stream) ==
    LET read == ReadCompressedBlocks(compressed_block_headers, stream)
    IN IF read.err # "" THEN [err |-> read.err, sections |-> << >>]
       ELSE DecodeFrom(compressed_block_headers, read.blocks, data_section_sizes, << >>)

\* An empty typed section, None
NoSection == << Run(0, Corrupt, << >>) >>

\* _encode_category with GreedyBytes: Aligned(32, GreedyBytes) of each section
\* that is not None
EncodeCategory(category) ==
    [i \in 1..Len(category) |->
        IF category[i] = NoSection THEN << >> ELSE Ljust32(category[i])]

\* raw_sections after the typed sections are encoded over them
EncodedSections(obj) ==
    [category \in (DOMAIN obj.raw_sections) \cup (DOMAIN obj.sections) |->
        IF category \in DOMAIN obj.sections THEN EncodeCategory(obj.sections[category])
        ELSE obj.raw_sections[category]]

\* The data sections of the categories before position k of _all_categories
RECURSIVE SectionsBefore(_, _)
SectionsBefore(raw_sections, k) ==
    IF k <= 1 THEN << >>
    ELSE SectionsBefore(raw_sections, k - 1)
         \o (IF AllCategories[k - 1] \in DOMAIN raw_sections
             THEN raw_sections[AllCategories[k - 1]] ELSE << >>)

\* mrea_header[category] = len(data_sections), for the categories that are there
CategoryStarts(raw_sections) ==
    [category \in DOMAIN raw_sections |->
        Len(SectionsBefore(raw_sections, CategoryIndex(category)))]

\* The payloads _build writes, one after the other
RECURSIVE WriteCompressedBlocks(_)
WriteCompressedBlocks(compressed_blocks) ==
    IF compressed_blocks = << >> THEN << >>
    ELSE Concat(IF Head(compressed_blocks).header.compressed_size # 0
                THEN PrefixedWithPaddingBeforeBuild(Head(compressed_blocks).data)
                ELSE DataSectionBuild(Head(compressed_blocks).data),
                WriteCompressedBlocks(Tail(compressed_blocks)))

\* MREAConstruct._build: the header fields, the section sizes, the block
\* headers and the payloads written
BuildMrea(obj, z) ==
    LET raw_sections == EncodedSections(obj)
        data_sections == SectionsBefore(raw_sections, Len(AllCategories) + 1)
        mrea_header == CategoryStarts(raw_sections)
        encoded == EncodeCompressedBlocks(data_sections, mrea_header, z)
    IN IF encoded.err # "" THEN [err |-> encoded.err]
       ELSE IF "script_layers_section" \notin DOMAIN obj.raw_sections
       THEN [err |-> "AttributeError"]
       ELSE [err |-> "",
             header |-> [starts |-> mrea_header,
                         compressed_block_count |-> Len(encoded.blocks),
                         script_layer_count |-> Len(obj.raw_sections["script_layers_section"]),
                         data_section_count |-> Len(data_sections)],
             data_sections |-> data_sections,
             data_section_sizes |-> [i \in 1..Len(data_sections) |-> BytesLen(data_sections[i])],
             compressed_blocks |-> encoded.blocks,
             stream |-> WriteCompressedBlocks(encoded.blocks)]

\* MREAConstruct._parse of what _build wrote, up to the flat list of sections
ParseMrea(built) ==
    DecodeCompressedBlocks([i \in 1..built.header.compressed_block_count |->
                               built.compressed_blocks[i].header],
                           built.data_section_sizes, built.stream)

\* ----------------------------------------------- rebuilding and reading an MREA
\* The manager of a session that makes no call on it
IdleManager ==
    /\ budget = 0
    /\ target_game = "ECHOES"
    /\ disk = [r \in Roots |-> NoFiles]
    /\ paks_for_asset_id = EmptyFn
    /\ types_for_asset_id = EmptyFn
    /\ ensured_asset_ids = EmptyFn
    /\ modified_resources = EmptyFn
    /\ custom_asset_ids = EmptyFn
    /\ next_generated_id = NextGeneratedIdSeed
    /\ cached_dependencies = EmptyFn
    /\ cached_ancs_per_char_dependencies = EmptyFn
    /\ first_written = [deps |-> EmptyFn, ancs |-> EmptyFn]
    /\ deleted = EmptyFn
    /\ given = EmptyFn
    /\ generated = << >>
    /\ last = [op |-> "init", err |-> ""]
    /\ nops = 0

ManagerUnchanged ==
    UNCHANGED << target_game, disk, paks_for_asset_id, types_for_asset_id, ensured_asset_ids,
                 modified_resources, custom_asset_ids, next_generated_id,
                 cached_dependencies, cached_ancs_per_char_dependencies, first_written,
                 deleted, given, generated, last, nops, budget >>

\* The data sections of an MREA as pairs of a position in _all_categories and a
\* length, in the order of the file
SectionPlacements ==
    {s \in UNION {[1..n -> (1..Len(AllCategories)) \X SectionSizes] : n \in 0..MaxSections} :
        \A i \in 1..(Len(s) - 1) : s[i][1] <= s[i + 1][1]}

\* The categories that hold no section of s
EmptyCategories(s) ==
    {AllCategories[k] : k \in {j \in 1..Len(AllCategories) :
                                  \A i \in 1..Len(s) : s[i][1] # j}}

\* raw_sections of the placements s: section i of the file is filled with
\* byte i, and the categories of absent are not in the file
RawSectionsOf(s, absent) ==
    [category \in {AllCategories[k] : k \in 1..Len(AllCategories)} \ absent |->
        LET k == CategoryIndex(category)
            first == Cardinality({i \in 1..Len(s) : s[i][1] < k})
            count == Cardinality({i \in 1..Len(s) : s[i][1] = k})
        IN [j \in 1..count |-> Bytes(s[first + j][2], first + j)]]

MreaInit ==
    /\ IdleManager
    /\ area = NoArea
    /\ \E s \in SectionPlacements :
          \E absent \in SUBSET EmptyCategories(s) :
             mrea = [phase |-> "open",
                     obj |-> [raw_sections |-> RawSectionsOf(s, absent),
                              sections |-> EmptyFn]]

\* MREA.build of the open MREA
CallBuildMrea ==
    /\ mrea.phase = "open"
    /\ \E z \in LzoProfiles :
          mrea' = [phase |-> "built", obj |-> mrea.obj, built |-> BuildMrea(mrea.obj, z)]
    /\ UNCHANGED area
    /\ ManagerUnchanged

\* MREA.parse of the bytes that were built
CallParseMrea ==
    /\ mrea.phase = "built"
    /\ mrea.built.err = ""
    /\ mrea' = [phase |-> "parsed", obj |-> mrea.obj, built |-> mrea.built,
                parsed |-> ParseMrea(mrea.built)]
    /\ UNCHANGED area
    /\ ManagerUnchanged

MreaNext ==
    \/ CallBuildMrea
    \/ CallParseMrea

MreaSpec == MreaInit /\ [][MreaNext]_vars

\* ------------------------------------------------------------ Area of an MLVL
\* Largest number of calls on one Area.
MaxAreaOps == 3

\* _hardcoded_dependencies: for an MREA id, the pairs to add by layer name, in
\* the order of the table.  The asset ids of the areas and of the pairs are
\* written as their eight hexadecimal digits.
HardcodedDependencies(mrea_asset_id) ==
    CASE mrea_asset_id = "D7C3B839" ->
         << << "Default", << << "TXTR", "D5B9E5D1" >> >> >>,
            << "Emperor Ing Stage 1", << << "TXTR", "52C7D438" >> >> >>,
            << "Emperor Ing Stage 3", << << "TXTR", "D5B9E5D1" >> >> >>,
            << "Emperor Ing Stage 1 Intro Cine", << << "TXTR", "52C7D438" >> >> >>,
            << "Emperor Ing Stage 3 Death Cine", << << "TXTR", "D5B9E5D1" >> >> >> >>
      [] mrea_asset_id = "A92F00B3" ->
         << << "CliffsideBoss", << << "TXTR", "24149E16" >>, << "TXTR", "BDB8A88A" >>, << "FSM2", "3D31822B" >> >> >> >>
      [] mrea_asset_id = "C0113CE8" ->
         << << "3rd Pass", << << "RULE", "393CA543" >> >> >> >>
      [] mrea_asset_id = "5571E89E" ->
         << << "2nd Pass Enemies", << << "RULE", "393CA543" >> >> >> >>
      [] mrea_asset_id = "7B94B06B" ->
         << << "1st Pass", << << "RULE", "393CA543" >> >> >>,
            << "2nd Pass", << << "RULE", "393CA543" >> >> >> >>
      [] mrea_asset_id = "F8DBC03D" ->
         << << "2nd Pass", << << "RULE", "393CA543" >> >> >> >>
      [] mrea_asset_id = "B666B655" ->
         << << "2nd Pass", << << "RULE", "393CA543" >> >> >> >>
      [] mrea_asset_id = "E79AAFAE" ->
         << << "2nd Pass", << << "RULE", "393CA543" >> >> >> >>
      [] mrea_asset_id = "FEB7BD27" ->
         << << "Default", << << "RULE", "393CA543" >> >> >> >>
      [] mrea_asset_id = "89D246FD" ->
         << << "Default", << << "RULE", "393CA543" >> >> >> >>
      [] mrea_asset_id = "0253782D" ->
         << << "Default", << << "RULE", "393CA543" >> >> >> >>
      [] mrea_asset_id = "09DECF21" ->
         << << "Default", << << "RULE", "393CA543" >> >> >> >>
      [] mrea_asset_id = "629790F4" ->
         << << "1st Pass", << << "RULE", "393CA543" >> >> >> >>
      [] mrea_asset_id = "BBE4B3AE" ->
         << << "Default", << << "TXTR", "E252E7F6" >> >> >> >>
      [] mrea_asset_id = "2BCD44A7" ->
         << << "Default", << << "TXTR", "B6FA5023" >> >> >> >>
      [] mrea_asset_id = "C68B5B51" ->
         << << "!!non_layer!!", << << "TXTR", "75A219A8" >> >> >> >>
      [] mrea_asset_id = "625A2692" ->
         << << "!!non_layer!!", << << "TXTR", "581C56EA" >> >> >> >>
      [] mrea_asset_id = "96F4CA1E" ->
         << << "Default", << << "TXTR", "AC080DFB" >> >> >> >>
      [] mrea_asset_id = "5BBF334F" ->
         << << "!!non_layer!!", << << "TXTR", "738FEB19" >> >> >> >>
      [] OTHER -> << >>

\* The MREA ids of _hardcoded_dependencies
HardcodedAreaIds == {"D7C3B839", "A92F00B3", "C0113CE8", "5571E89E", "7B94B06B", "F8DBC03D", "B666B655", "E79AAFAE", "FEB7BD27", "89D246FD", "0253782D", "09DECF21", "629790F4", "BBE4B3AE", "2BCD44A7", "C68B5B51", "625A2692", "96F4CA1E", "5BBF334F"}

\* "!!non_layer!!", the key of the pairs that belong to no layer
NonLayerKey == "!!non_layer!!"

\* _hardcoded_dependencies.get(mrea_asset_id, {})[layer_name], or nothing
HardcodedFor(mrea_asset_id, layer_name) ==
    LET entries == HardcodedDependencies(mrea_asset_id)
    IN IF \E k \in 1..Len(entries) : entries[k][1] = layer_name
       THEN entries[CHOOSE k \in 1..Len(entries) : entries[k][1] = layer_name][2]
       ELSE << >>

\* An area that is not in the table .
PlainAreaId == "64E640D6"

AreaIds == HardcodedAreaIds \cup {PlainAreaId}

\* The names of the layers of an area: those the table names, or "Default"
AreaLayerNames(mrea_asset_id) ==
    LET entries == HardcodedDependencies(mrea_asset_id)
        named == SelectSeq(entries, LAMBDA e : e[1] # NonLayerKey)
    IN IF named = << >> THEN << "Default" >>
       ELSE [k \in 1..Len(named) |-> named[k][1]]

\* The dependencies the script instances yield: two assets that no table lists
\* and one that the table lists for Sanctum.
InstanceDependencies ==
    {<< << "CMDL", "00000001" >>, << "TXTR", "00000002" >>, << "CMDL", "00000001" >> >>,
     << << "TXTR", "52C7D438" >> >>}

Range(s) == {s[i] : i \in 1..Len(s)}

\* list(dict.fromkeys(deps))
RECURSIVE DictFromKeys(_)
DictFromKeys(deps) ==
    IF deps = << >> THEN << >>
    ELSE LET front == DictFromKeys(SubSeq(deps, 1, Len(deps) - 1))
         IN IF deps[Len(deps)] \in Range(front) THEN front
            ELSE Append(front, deps[Len(deps)])

\* itertools.chain(*lists)
RECURSIVE Chain(_)
Chain(lists) == IF lists = << >> THEN << >> ELSE Head(lists) \o Chain(Tail(lists))

\* _decode_category with GreedyBytes: None for an empty section
DecodeCategory(category) ==
    [i \in 1..Len(category) |-> IF category[i] = << >> THEN NoSection ELSE category[i]]

\* Mrea.script_layers: one ScriptLayer for each section of the decoded group
ScriptLayerCount == Len(mrea.obj.sections["script_layers_section"])

\* layer.is_modified(), the flag of the layer
IsModified(layer) == layer.modified

\* layer.is_modified in a condition: the bound method, which is true
IsModifiedAttribute(layer) == TRUE

\* ScriptLayer.build_mlvl_dependencies: what the instances of the layer yield
LayerBuildMlvlDependencies(layer) == Chain(layer.instances)

\* ScriptLayer.dependencies: the stored pairs between the offsets of the layer
\* (index counts from 0)
LayerDependencies(a, index) ==
    LET deps == a.dependencies
        from == deps.offsets[index + 1]
        to == IF index + 2 <= Len(deps.offsets) THEN deps.offsets[index + 2]
              ELSE Len(deps.dependencies)
    IN SubSeq(deps.dependencies, from + 1, to)

\* Area.non_layer_dependencies
NonLayerDependencies(a) ==
    LET deps == a.dependencies
    IN IF Len(a.layer_names) + 1 > Len(deps.offsets)
       THEN [err |-> "IndexError", deps |-> << >>]
       ELSE [err |-> "",
             deps |-> SubSeq(deps.dependencies, deps.offsets[Len(a.layer_names) + 1] + 1,
                             Len(deps.dependencies))]

\* Area.get_layer: the index (from 0) of the first layer of that name, -1 when
\* next() finds none
GetLayer(a, name) ==
    LET found == {i \in 1..Len(a.layers) : i <= Len(a.layer_names) /\ a.layer_names[i] = name}
    IN IF found = {} THEN -1
       ELSE (CHOOSE i \in found : \A j \in found : i <= j) - 1

\* The loop of build_scgn_dependencies over the generated objects
RECURSIVE ExtendWithScgn(_, _, _, _)
ExtendWithScgn(a, instances, layer_deps, only_modified) ==
    IF instances = << >> THEN layer_deps
    ELSE LET instance == Head(instances)
             inst_layer == instance.layer
             extended ==
                IF (~only_modified) \/ IsModifiedAttribute(a.layers[inst_layer + 1])
                THEN [layer_deps EXCEPT ![inst_layer + 1] = @ \o instance.deps]
                ELSE layer_deps
         IN ExtendWithScgn(a, Tail(instances), extended, only_modified)

BuildScgnDependencies(a, layer_deps, only_modified) ==
    LET extended == ExtendWithScgn(a, a.scgn, layer_deps, only_modified)
    IN [i \in 1..Len(extended) |-> DictFromKeys(extended[i])]

\* A rebuild that adds nothing from the table
ExtendWithNothing(a, entries, layer_deps, only_modified) ==
    [err |-> "", layer_deps |-> layer_deps]

\* The loop of build_mlvl_dependencies over the entries of the table
RECURSIVE ExtendWithHardcoded(_, _, _, _)
ExtendWithHardcoded(a, entries, layer_deps, only_modified) ==
    IF entries = << >> THEN [err |-> "", layer_deps |-> layer_deps]
    ELSE LET layer_name == Head(entries)[1]
             missing == Head(entries)[2]
             index == GetLayer(a, layer_name)
         IN IF layer_name = NonLayerKey
            THEN ExtendWithHardcoded(a, Tail(entries), layer_deps, only_modified)
            ELSE IF index = -1 THEN [err |-> "StopIteration", layer_deps |-> layer_deps]
            ELSE IF only_modified /\ ~IsModifiedAttribute(a.layers[index + 1])
            THEN ExtendWithHardcoded(a, Tail(entries), layer_deps, only_modified)
            ELSE ExtendWithHardcoded(a, Tail(entries),
                                     [layer_deps EXCEPT ![index + 1] = @ \o missing],
                                     only_modified)

\* offsets of build_mlvl_dependencies: where each list starts in the flat list
RECURSIVE Offsets(_, _)
Offsets(layer_deps, offset) ==
    IF layer_deps = << >> THEN << >>
    ELSE << offset >> \o Offsets(Tail(layer_deps), offset + Len(Head(layer_deps)))

\* Area.build_mlvl_dependencies
BuildMlvlDependencies(a, only_modified) ==
    LET of_layers == [i \in 1..Len(a.layers) |->
                        IF (~only_modified) \/ IsModified(a.layers[i])
                        THEN LayerBuildMlvlDependencies(a.layers[i])
                        ELSE LayerDependencies(a, i - 1)]
        stored == NonLayerDependencies(a)
        non_layer_deps ==
           IF only_modified THEN stored.deps
           ELSE a.non_layer_built \o HardcodedFor(a.mrea_asset_id, NonLayerKey)
        with_scgn == BuildScgnDependencies(a, Append(of_layers, non_layer_deps), only_modified)
        hard == ExtendWithHardcoded(a, HardcodedDependencies(a.mrea_asset_id), with_scgn,
                                    only_modified)
    IN IF only_modified /\ stored.err # "" THEN [err |-> stored.err, a |-> a]
       ELSE IF hard.err # "" THEN [err |-> hard.err, a |-> a]
       ELSE [err |-> "",
             a |-> [a EXCEPT !.dependencies =
                      [dependencies |-> Chain(hard.layer_deps),
                       offsets |-> Offsets(hard.layer_deps, 0)]]]

\* Area.add_layer on the area a and the decoded sections of its MREA: the name
\* and the flag are appended, then the attribute script_layer_section of
\* mrea._raw.sections is read, and get_layer looks for the name
AddLayer(a, sections, name, active) ==
    LET appended == [a EXCEPT !.layer_names = Append(@, name), !.flags = Append(@, active)]
    IN IF "script_layer_section" \notin DOMAIN sections
       THEN [err |-> "AttributeError", a |-> appended, sections |-> sections]
       ELSE [err |-> IF GetLayer(appended, name) = -1 THEN "StopIteration" ELSE "",
             a |-> appended,
             sections |-> [sections EXCEPT !["script_layer_section"] = Append(@, Bytes(32, 0))]]

\* ScriptLayer.remove_instance of the first instance: the layer is modified
RemoveInstance(a, index) ==
    [a EXCEPT !.layers[index + 1] = [modified |-> TRUE, instances |-> Tail(@.instances)]]

\* ScriptLayer.add_instance of an instance that yields deps: the layer is modified
AddInstance(a, index, deps) ==
    [a EXCEPT !.layers[index + 1] = [modified |-> TRUE, instances |-> Append(@.instances, deps)]]

\* The generated objects of an area: none, or one object of the first layer
ScgnChoices == {<< >>, << [layer |-> 0, deps |-> << << "PART", "00000003" >>, << "TXTR", "00000002" >> >>] >>}

\* What build_non_layer_dependencies yields: the assets of the geometry, then
\* the portal area
NonLayerBuilt == << << "TXTR", "00000002" >>, << "PTLA", "00000004" >> >>

\* The names given to add_layer
NewLayerNames == {"Bonus"}

\* The Area of an MLVL this library saved: its lists are those of a full rebuild
NewArea(mrea_asset_id, busy, deps, scgn) ==
    LET names == AreaLayerNames(mrea_asset_id)
        fresh == [mrea_asset_id |-> mrea_asset_id,
                  layer_names |-> names,
                  flags |-> [i \in 1..Len(names) |-> TRUE],
                  layers |-> [i \in 1..Len(names) |->
                                [modified |-> FALSE,
                                 instances |-> IF i = busy THEN << deps >> ELSE << >>]],
                  scgn |-> scgn,
                  non_layer_built |-> NonLayerBuilt,
                  dependencies |-> [dependencies |-> << >>, offsets |-> << >>],
                  steps |-> 0,
                  last |-> [op |-> "init", err |-> ""]]
    IN BuildMlvlDependencies(fresh, FALSE).a

\* The MREA of an area of n layers: n script-layer sections, decoded lazily, and
\* the section of the generated objects
AreaMrea(n) ==
    LET raw == [category \in Range(AllCategories) |->
                  IF category = "script_layers_section" THEN [i \in 1..n |-> Bytes(64, i)]
                  ELSE IF category = "generated_script_objects_section"
                  THEN << Bytes(64, n + 1) >>
                  ELSE << >>]
    IN [phase |-> "open",
        obj |-> [raw_sections |-> raw,
                 sections |-> [category \in {"script_layers_section"} |->
                                 DecodeCategory(raw[category])]]]

AreaInit ==
    /\ IdleManager
    /\ \E mrea_asset_id \in AreaIds :
          LET n == Len(AreaLayerNames(mrea_asset_id))
          IN /\ mrea = AreaMrea(n)
             /\ \E busy \in 0..n, deps \in InstanceDependencies, scgn \in ScgnChoices :
                   area = NewArea(mrea_asset_id, busy, deps, scgn)

AreaCall(op, err, a, args) ==
    /\ area.steps < MaxAreaOps
    /\ area' = [a EXCEPT !.steps = area.steps + 1,
                         !.last = [op |-> op, err |-> err, args |-> args]]
    /\ ManagerUnchanged

CallBuildMlvlDependencies ==
    \E only_modified \in BOOLEAN :
        LET r == BuildMlvlDependencies(area, only_modified)
        IN /\ AreaCall("build_mlvl_dependencies", r.err, r.a, [only_modified |-> only_modified])
           /\ UNCHANGED mrea

CallRemoveInstance ==
    \E index \in 0..(Len(area.layers) - 1) :
        /\ area.layers[index + 1].instances # << >>
        /\ AreaCall("remove_instance", "", RemoveInstance(area, index), [layer |-> index])
        /\ UNCHANGED mrea

CallAddInstance ==
    \E index \in 0..(Len(area.layers) - 1), deps \in InstanceDependencies :
        /\ area.layers[index + 1].instances = << >>
        /\ AreaCall("add_instance", "", AddInstance(area, index, deps), [layer |-> index])
        /\ UNCHANGED mrea

CallAddLayer ==
    \E name \in NewLayerNames, active \in BOOLEAN :
        LET r == AddLayer(area, mrea.obj.sections, name, active)
        IN /\ AreaCall("add_layer", r.err, r.a, [name |-> name])
           /\ mrea' = [mrea EXCEPT !.obj.sections = r.sections]

AreaNext ==
    \/ CallBuildMlvlDependencies
    \/ CallRemoveInstance
    \/ CallAddInstance
    \/ CallAddLayer

AreaSpec == AreaInit /\ [][AreaNext]_vars

\* ------------------------------------------------------------- the properties
Tombstoned(a) == a \in DOMAIN modified_resources /\ modified_resources[a] = Tombstone

DepIds(deps) == {deps[i].id : i \in DOMAIN deps}

\* The ids get_dependencies_for_asset(a) yields with the fields m
YieldedIds(m, dk, a) == DepIds(GetDependenciesForAsset(m, dk, target_game, a, FALSE).deps)

\* The ids reachable from the ids of S through get_dependencies_for_asset
RECURSIVE ReachableFrom(_, _, _)
ReachableFrom(m, dk, S) ==
    LET T == S \cup UNION {YieldedIds(m, dk, a) : a \in S}
    IN IF T = S THEN S ELSE ReachableFrom(m, dk, T)

Saved == last.op = "save_modifications" /\ last.err = ""
Returned(op) == last.op = op /\ last.err = ""

\* For a state that a returned call on an asset id left: the ids
\* get_dependencies_for_asset yields for that asset, and the ids reachable from it.
LastYielded == YieldedIds(Self, disk, last.args.id)
LastReachable == ReachableFrom(Self, disk, {last.args.id})

\* C1: when ensure_present(p, a) returned and save_modifications(out) is the
\* next call, PAK p is written under out and holds a and every id that
\* get_dependencies_for_asset(a) yields.
C1_DependencyClosure ==
    [][ (Returned("ensure_present") /\ Saved')
        => LET p == last.args.pak
               out == last'.args.out
           IN /\ p \in last'.args.written
              /\ p \in DOMAIN disk'[out].paks
              /\ \A d \in {last.args.id} \cup LastYielded :
                     d \in DOMAIN disk'[out].paks[p] ]_vars

\* C2: when add_new_asset(name, data, in_paks) returned and save_modifications(out)
\* is the next call, every PAK of in_paks is written under out and holds the
\* new id with the bytes of data.
C2_AddedAssetIsSaved ==
    [][ (Returned("add_new_asset") /\ Saved')
        => \A i \in DOMAIN last.args.in_paks :
              LET p == last.args.in_paks[i]
                  out == last'.args.out
              IN /\ p \in last'.args.written
                 /\ p \in DOMAIN disk'[out].paks
                 /\ last.args.id \in DOMAIN disk'[out].paks[p]
                 /\ disk'[out].paks[p][last.args.id] = last.args.data ]_vars

\* C3: a call ensure_present(p, a) that returns leaves a and every id yielded
\* by get_dependencies_for_asset(a) held by p or ensured in p, has added to the
\* ensured set of p only ids reachable from a, and has changed the ensured set
\* of no other PAK.
C3_EnsurePresentPost ==
    Returned("ensure_present")
    => LET p == last.args.pak
           a == last.args.id
           before == last.args.before
       IN /\ \A d \in {a} \cup LastYielded :
                 /\ d \in DOMAIN paks_for_asset_id
                 /\ p \in paks_for_asset_id[d] \/ d \in ensured_asset_ids[p]
          /\ (ensured_asset_ids[p] \ before[p]) \subseteq LastReachable
          /\ \A q \in DOMAIN before : q # p => ensured_asset_ids[q] = before[q]

\* A returned ensure_present has put a dependency of the asset, held by
\* another PAK only, into the ensured set of its PAK.
C3_Witness ==
    /\ Returned("ensure_present")
    /\ \E d \in ensured_asset_ids[last.args.pak] :
          /\ d # last.args.id
          /\ d \in LastYielded
          /\ last.args.pak \notin paks_for_asset_id[d]

\* C4: at a save_modifications that returns, every asset deleted since the
\* last save has every PAK that held it among the PAKs written, and no PAK
\* written holds it.
C4_TombstoneInOutput ==
    [][ Saved'
        => \A a \in DOMAIN deleted :
              /\ deleted[a] \subseteq last'.args.written
              /\ \A p \in last'.args.written : a \notin DOMAIN disk'[last'.args.out].paks[p] ]_vars

\* C5: does_asset_exists(a) is true exactly when a has data in the
\* modification map or is held by a PAK of the provider, and a is not
\* tombstoned; an asset deleted since the last save does not exist.
C5_DoesAssetExist ==
    \A a \in AssetIds :
        /\ DoesAssetExists(Self, a)
             <=> /\ \/ a \in DOMAIN modified_resources /\ modified_resources[a] \in Datas
                    \/ HoldersOf(disk, a) # {}
                 /\ ~Tombstoned(a)
        /\ a \in DOMAIN deleted => ~DoesAssetExists(Self, a)

\* An asset was deleted, and a later call tried to bring it back.
C5_Witness ==
    /\ last.op \in {"add_new_asset", "replace_asset", "ensure_present",
                    "register_custom_asset_name"}
    /\ \E a \in DOMAIN deleted : deleted[a] # {} /\ ~DoesAssetExists(Self, a)

\* C6: no ensured set holds a tombstoned id.
C6_NoTombstoneEnsured ==
    \A p \in DOMAIN ensured_asset_ids : \A a \in ensured_asset_ids[p] : ~Tombstoned(a)

\* ensure_present failed on an asset whose cached dependencies name a deleted
\* asset, after it had ensured the asset itself.
C6_Witness ==
    /\ last.op = "ensure_present" /\ last.err = "UnknownAssetId"
    /\ \E p \in DOMAIN ensured_asset_ids : \E a \in ensured_asset_ids[p] :
          /\ a \in DOMAIN cached_dependencies
          /\ \E d \in DepIds(cached_dependencies[a]) : d # a /\ Tombstoned(d)

\* C7: a PAK never ensures an asset the index lists it for.
C7_EnsuredDisjoint ==
    \A p \in DOMAIN ensured_asset_ids : \A a \in ensured_asset_ids[p] :
        a \in DOMAIN paks_for_asset_id => p \notin paks_for_asset_id[a]

\* An asset held by both PAKs was asked for in one of them, and an asset is
\* ensured in the other PAK.
C7_Witness ==
    /\ Returned("ensure_present")
    /\ last.args.pak \in paks_for_asset_id[last.args.id]
    /\ \E p \in DOMAIN ensured_asset_ids : ensured_asset_ids[p] # {}

\* C8: every key of the modification map is held by a PAK of the provider or
\* is the id of an alias and held by no PAK, and is a key of the index.
C8_ModifiedKeysKnown ==
    \A a \in DOMAIN modified_resources :
        /\ \/ HoldersOf(disk, a) # {}
           \/ /\ \E n \in DOMAIN custom_asset_ids : custom_asset_ids[n] = a
              /\ HoldersOf(disk, a) = {}
        /\ a \in DOMAIN paks_for_asset_id

\* The map holds a replaced PAK asset, and an added asset that was deleted.
C8_Witness ==
    \E a, b \in DOMAIN modified_resources :
        /\ HoldersOf(disk, a) # {} /\ modified_resources[a] \in Datas
        /\ HoldersOf(disk, b) = {} /\ Tombstoned(b)

\* C9: the values generate_asset_id returns are strictly increasing, and the
\* value returned is a key of neither the index nor the modification map.
C9_FreshIdUniqueness ==
    /\ \A i, j \in DOMAIN generated : i < j => generated[i] < generated[j]
    /\ last.op = "generate_asset_id" => ~last.was_key

ExistingIds == {a \in AssetIds : DoesAssetExists(Self, a)}

\* C10: after a save_modifications(out) that returns, the index lists for
\* every PAK written the ids the PAK under out holds, no asset deleted before the save exists, every id that
\* was ensured in a PAK is listed for that PAK, and the aliases are still bound.
C10_PostSaveView ==
    [][ Saved'
        => LET out == last'.args.out
           IN /\ \A p \in last'.args.written :
                    {a \in DOMAIN paks_for_asset_id' : p \in paks_for_asset_id'[a]}
                        = DOMAIN disk'[out].paks[p]
              /\ \A a \in DOMAIN deleted : a \notin ExistingIds'
              /\ \A p \in DOMAIN ensured_asset_ids : \A a \in ensured_asset_ids[p] :
                    a \in DOMAIN paks_for_asset_id' /\ p \in paks_for_asset_id'[a]
              /\ \A n \in DOMAIN custom_asset_ids :
                    n \in DOMAIN custom_asset_ids' /\ custom_asset_ids'[n] = custom_asset_ids[n]
      ]_vars

\* The ids the modification map tombstones
TombstonedIds == {a \in DOMAIN modified_resources : modified_resources[a] = Tombstone}

\* C11: for every PAK p that a returned save_modifications(out) wrote, the
\* ids of the PAK written are the ids p held before the save without the
\* tombstoned ids, with the ensured ids of p; every id of it that the
\* modification map replaces holds the replacement; every ensured id holds
\* what get_raw_asset gave for it before the save.
C11_SavedPakContents ==
    [][ Saved'
        => \A p \in last'.args.written :
              LET new == disk'[last'.args.out].paks[p]
                  old == disk["provider"].paks[p]
              IN /\ DOMAIN new = ((DOMAIN old) \ TombstonedIds) \cup ensured_asset_ids[p]
                 /\ \A a \in (DOMAIN new) \cap (DOMAIN modified_resources) :
                        new[a] = modified_resources[a]
                 /\ \A a \in ensured_asset_ids[p] : new[a] = GetRawAsset(Self, disk, a).data
      ]_vars

\* The PAKs of the provider that hold an id of the modification map
PaksHoldingModified ==
    {p \in DOMAIN disk["provider"].paks :
        \E a \in DOMAIN modified_resources : a \in DOMAIN disk["provider"].paks[p]}

\* C12: a save_modifications(out) that returns, out not being the root of the
\* provider, writes the PAKs that hold an id of the modification map, which
\* are the PAKs the index lists for the modified ids, and custom_names.json;
\* every other PAK file under out and every file of the provider is as before.
C12_SaveWritesExactly ==
    [][ (Saved' /\ last'.args.out # "provider")
        => LET out == last'.args.out
               written == last'.args.written
           IN /\ written = PaksHoldingModified
              /\ written = UNION {paks_for_asset_id[a] : a \in DOMAIN modified_resources}
              /\ DOMAIN disk'[out].paks = (DOMAIN disk[out].paks) \cup written
              /\ \A p \in (DOMAIN disk'[out].paks) \ written :
                    disk'[out].paks[p] = disk[out].paks[p]
              /\ disk'[out].names = << JsonDump(custom_asset_ids) >>
              /\ disk'["provider"] = disk["provider"]
      ]_vars

\* C13 as stated: a call that is not a returned save_modifications removes no
\* key from the modification map and no id from an ensured set; a returned
\* save_modifications leaves the modification map empty.
C13_OnlyGrow ==
    [][ IF Saved'
        THEN modified_resources' = EmptyFn
        ELSE /\ (DOMAIN modified_resources) \subseteq DOMAIN modified_resources'
             /\ \A p \in DOMAIN ensured_asset_ids :
                   /\ p \in DOMAIN ensured_asset_ids'
                   /\ ensured_asset_ids[p] \subseteq ensured_asset_ids'[p]
      ]_vars

\* C13, amended: a call that is not a returned save_modifications removes no
\* key from the modification map, and removes from an ensured set nothing
\* but the id of a returned delete_asset, which is then in no ensured set; a
\* returned save_modifications leaves the modification map empty.
C13_GrowExceptDeleted ==
    [][ IF Saved'
        THEN modified_resources' = EmptyFn
        ELSE /\ (DOMAIN modified_resources) \subseteq DOMAIN modified_resources'
             /\ \A p \in DOMAIN ensured_asset_ids :
                   /\ p \in DOMAIN ensured_asset_ids'
                   /\ IF last'.op = "delete_asset" /\ last'.err = ""
                      THEN /\ (ensured_asset_ids[p] \ {last'.args.id})
                                 \subseteq ensured_asset_ids'[p]
                           /\ last'.args.id \notin ensured_asset_ids'[p]
                      ELSE ensured_asset_ids[p] \subseteq ensured_asset_ids'[p]
      ]_vars

\* delete_asset returned on an id that was in an ensured set, with another
\* key in the modification map.
C13_Witness ==
    /\ Returned("delete_asset")
    /\ last.args.ensured_in # {}
    /\ \E a \in DOMAIN modified_resources : a # last.args.id

\* C14: after a save_modifications(out) that returns, the alias table of a
\* manager constructed on out is the alias table the saving manager had when
\* the save began: the same names, bound to the same ids.
C14_AliasStability ==
    [][ Saved' => NewManager(disk', last'.args.out).custom_asset_ids = custom_asset_ids ]_vars

\* A save wrote a table with an alias over an older custom_names.json of
\* another content, or under a root that is not the one the saving manager reads.
C14_Witness ==
    /\ Saved
    /\ NewManager(disk, last.args.out).custom_asset_ids # EmptyFn
    /\ NewManager(disk, last.args.out).custom_asset_ids # custom_asset_ids

\* What C15 compares of the fields of a manager
EnsureView(m) ==
    << m.ensured_asset_ids, m.modified_resources, m.paks_for_asset_id, m.custom_asset_ids >>

\* C15: in every state in which a session still makes a call, for every PAK
\* p of the provider and every existing asset a, a second ensure_present(p, a)
\* right after a first one ends as the first did and leaves the ensured sets,
\* the modification map, the index and the alias table as the first left them.
C15_EnsurePresentIdempotent ==
    nops < budget
    => \A p \in PakNames, k \in Keys :
          DoesAssetExists(Self, k)
          => LET first == EnsurePresent(Self, disk, target_game, p, k, {})
                 second == EnsurePresent(first.m, disk, target_game, p, k, {})
             IN /\ second.err = first.err
                /\ EnsureView(second.m) = EnsureView(first.m)

\* ensure_present(p, a) returned after adding to an ensured set, and the
\* same call made again leaves the fields as they are.
C15_Witness ==
    /\ Returned("ensure_present")
    /\ ensured_asset_ids # last.args.before
    /\ EnsureView(EnsurePresent(Self, disk, target_game, last.args.pak, last.args.id, {}).m)
           = EnsureView(Self)

\* C16: every entry of the dependency cache and of the per-character cache
\* holds the tuple it held when it was written, no entry written is gone,
\* and a query that finds an entry yields that tuple, then the asset itself.
C16_CacheImmutable ==
    /\ cached_dependencies = first_written.deps
    /\ cached_ancs_per_char_dependencies = first_written.ancs
    /\ \A a \in DOMAIN cached_dependencies :
          DoesAssetExists(Self, a)
          => GetDependenciesRaw(Self, disk, target_game, a, FALSE).deps
               = Append(first_written.deps[a], Dep(GetAssetType(Self, a).type, a, FALSE))
    /\ \A a \in DOMAIN cached_ancs_per_char_dependencies :
          \A c \in DOMAIN cached_ancs_per_char_dependencies[a] :
             LET r == GetDependenciesForAncs(Self, disk, target_game, a, c)
             IN r.err = "" => r.deps = Append(first_written.ancs[a][c], Dep("ANCS", a, FALSE))

\* Both caches hold an entry for an asset that replace_asset then gave a
\* content with other dependencies.
C16_Witness ==
    /\ Returned("replace_asset")
    /\ last.args.id \in DOMAIN cached_dependencies
    /\ cached_dependencies[last.args.id] # ContentDeps(last.args.data)
    /\ last.args.id \in DOMAIN cached_ancs_per_char_dependencies
    /\ cached_ancs_per_char_dependencies[last.args.id] # EmptyFn

\* The last call was get_dependencies_for_asset, as the sessions on each
\* game record it.
Queried == last.op = "get_dependencies_for_asset" /\ "hit" \in DOMAIN last.args

\* An id that is not valid for the game: all ones, and 0 in a 32-bit game.
InvalidForGame(a) ==
    IF target_game \in {"PRIME", "ECHOES"}
    THEN a \in {0, InvalidAssetId32}
    ELSE a = InvalidAssetId64

\* An asset with data: in the modification map, or in a PAK and not in the map.
HasData(a) ==
    IF a \in DOMAIN modified_resources THEN modified_resources[a] # Tombstone
    ELSE HoldersOf(disk, a) # {}

\* For a state a query of an existing asset left: what the children come
\* from, which is the entry of the cache when the query found one and the
\* references of the content otherwise.
LastSource ==
    IF last.args.hit THEN cached_dependencies[last.args.id]
    ELSE ContentDeps(GetRawAsset(Self, disk, last.args.id).data)

TypeAndId(deps) == [i \in DOMAIN deps |-> << deps[i].type, deps[i].id >>]

C18_InvalidOrUnknownId ==
    \A a \in QueryIds, must_exist \in BOOLEAN :
        LET r == GetDependenciesForAsset(Self, disk, target_game, a, must_exist)
        IN /\ InvalidForGame(a) => (~r.raised /\ r.deps = << >> /\ r.m = Self)
           /\ (~InvalidForGame(a) /\ ~HasData(a))
                 => (r.raised = must_exist /\ r.deps = << >> /\ r.m = Self)

\* In a session on PRIME that has tombstoned an asset, a query of id 0 with
\* must_exist returned and yielded nothing.
C18_Witness ==
    /\ Queried /\ last.err = ""
    /\ target_game = "PRIME"
    /\ last.args.id = 0 /\ last.args.must_exist /\ last.args.deps = << >>
    /\ \E a \in AssetIds : Tombstoned(a)

\* C19: of the dependencies a query of an existing asset yields, with I the
\* ignore list of the game, each one whose id is in I carries
\* exclude_for_mlvl true, and each other one carries the flag its source
\* gave: the flag of the child in the source of the children, and false for
\* the asset itself.
C19_OverrideByDependencyId ==
    (Queried /\ last.err = "" /\ ~InvalidForGame(last.args.id) /\ HasData(last.args.id))
    => LET deps == last.args.deps
           I == mlvl_dependencies_to_ignore(target_game)
           source_flag(i) == IF i \in DOMAIN LastSource
                             THEN LastSource[i].exclude_for_mlvl ELSE FALSE
       IN \A i \in DOMAIN deps :
             deps[i].exclude_for_mlvl = (deps[i].id \in I \/ source_flag(i))

Built == mrea.phase \in {"built", "parsed"} /\ mrea.built.err = ""

\* The positions in the file of the sections of block b of the built MREA
BlockSections(b) ==
    LET blocks == mrea.built.compressed_blocks
        RECURSIVE Before(_)
        Before(k) == IF k = 0 THEN 0
                     ELSE Before(k - 1) + blocks[k].header.data_section_count
    IN (Before(b - 1) + 1)..Before(b)

\* The category of section i of the built MREA
SectionLabel(i) == LastCategory(mrea.built.header.starts, i - 1)

ScriptLabels == {"script_layers_section", "generated_script_objects_section"}

\* script_layers, generated_script_objects, or the remainder
LabelFamily(label) == IF label \in ScriptLabels THEN label ELSE "remainder"

\* C21: script boundary rule. Every block of a built MREA that holds a section
\* of script_layers or of generated_script_objects holds that one section
\* only, and the sections of one block are all of script_layers, all of
\* generated_script_objects, or all of the remainder.
C21_ScriptBoundary ==
    Built =>
      \A b \in 1..Len(mrea.built.compressed_blocks) :
         /\ (\E i \in BlockSections(b) : SectionLabel(i) \in ScriptLabels)
               => Cardinality(BlockSections(b)) = 1
         /\ \A i, j \in BlockSections(b) :
               LabelFamily(SectionLabel(i)) = LabelFamily(SectionLabel(j))

\* The sections of block b of the built MREA, in the order of the file
BlockGroup(b) ==
    LET ids == BlockSections(b)
        first == IF ids = {} THEN 0 ELSE (CHOOSE i \in ids : \A j \in ids : i <= j) - 1
    IN [k \in 1..Cardinality(ids) |-> mrea.built.data_sections[first + k]]

\* The payload _build writes for a block
WrittenPayload(block) ==
    IF block.header.compressed_size # 0 THEN PrefixedWithPaddingBeforeBuild(block.data)
    ELSE DataSectionBuild(block.data)

C23_SizeRule ==
    Built =>
      \A b \in 1..Len(mrea.built.compressed_blocks) :
         LET header == mrea.built.compressed_blocks[b].header
         IN \/ header.uncompressed_size <= 131072
            \/ /\ header.data_section_count = 1
               /\ BytesLen(BlockGroup(b)[1]) > 131072

\* The data sections given to the build of the open MREA
GivenSections == SectionsBefore(mrea.obj.raw_sections, Len(AllCategories) + 1)

\* Every section given is a multiple of 32 bytes long
AlignedSections == \A i \in 1..Len(GivenSections) : BytesLen(GivenSections[i]) % 32 = 0

RECURSIVE SumLen(_)
SumLen(sections) ==
    IF sections = << >> THEN 0 ELSE BytesLen(Head(sections)) + SumLen(Tail(sections))

RECURSIVE SumCount(_)
SumCount(blocks) ==
    IF blocks = << >> THEN 0
    ELSE Head(blocks).header.data_section_count + SumCount(Tail(blocks))

\* C28: compressed-block round trip. When every section given is a multiple
\* of 32 bytes long (empty sections and no section at all included), the
\* build of an MREA that has its script_layers group succeeds, the
\* data_section_count of the blocks sum to the number of sections, the
\* uncompressed_size of each block is the summed length of its sections, and
\* decoding the headers and payloads written, with the section sizes written,
\* returns the sections given, in the same order.
C28_RoundTrip ==
    (mrea.phase \in {"built", "parsed"} /\ AlignedSections
       /\ "script_layers_section" \in DOMAIN mrea.obj.raw_sections) =>
      /\ mrea.built.err = ""
      /\ mrea.built.data_sections = GivenSections
      /\ SumCount(mrea.built.compressed_blocks) = Len(GivenSections)
      /\ \A b \in 1..Len(mrea.built.compressed_blocks) :
            mrea.built.compressed_blocks[b].header.uncompressed_size = SumLen(BlockGroup(b))
      /\ mrea.phase = "parsed" =>
            /\ mrea.parsed.err = ""
            /\ mrea.parsed.sections = GivenSections

\* An MREA of three aligned sections, one of them empty, read back from two
\* blocks or more, one of them stored compressed.
C28_Witness ==
    /\ mrea.phase = "parsed"
    /\ AlignedSections
    /\ Len(GivenSections) = 3
    /\ \E i \in 1..3 : GivenSections[i] = << >>
    /\ Len(mrea.built.compressed_blocks) >= 2
    /\ \E b \in 1..Len(mrea.built.compressed_blocks) :
          mrea.built.compressed_blocks[b].header.compressed_size > 0
    /\ mrea.parsed.sections = GivenSections

\* --------------------------------------------------- the lists of an area
\* The lists stored in _raw.dependencies, cut at the offsets: one for each
\* layer, then the non-layer list
StoredLists(a) ==
    LET deps == a.dependencies
    IN [i \in 1..Len(deps.offsets) |->
          SubSeq(deps.dependencies, deps.offsets[i] + 1,
                 IF i < Len(deps.offsets) THEN deps.offsets[i + 1]
                 ELSE Len(deps.dependencies))]

\* The area was rebuilt in full by the last call, build_mlvl_dependencies()
RebuiltInFull(a) ==
    /\ a.last.op = "build_mlvl_dependencies"
    /\ a.last.err = ""
    /\ ~a.last.args.only_modified

\* The pairs of the table are in the lists of a: those of a layer name in the
\* list of that layer, those of "!!non_layer!!" in the non-layer list
HardcodedListed(a) ==
    LET entries == HardcodedDependencies(a.mrea_asset_id)
        lists == StoredLists(a)
    IN \A k \in 1..Len(entries) :
          IF entries[k][1] = NonLayerKey
          THEN Range(entries[k][2]) \subseteq Range(lists[Len(lists)])
          ELSE /\ GetLayer(a, entries[k][1]) # -1
               /\ Range(entries[k][2]) \subseteq Range(lists[GetLayer(a, entries[k][1]) + 1])

\* The pairs the generated objects of layer index (from 0) yield
ScgnPairs(a, index) ==
    UNION {Range(a.scgn[k].deps) : k \in {j \in 1..Len(a.scgn) : a.scgn[j].layer = index}}

MutatingOperations ==
    {"register_custom_asset_name", "add_new_asset", "replace_asset", "delete_asset",
     "ensure_present"}

\* C25: failure atomicity. A call of register_custom_asset_name,
\* add_new_asset, replace_asset, delete_asset or ensure_present that raises
\* leaves custom_asset_ids, paks_for_asset_id, modified_resources and
\* ensured_asset_ids as they were before the call.
C25_FailureAtomicity ==
    [][(last'.op \in MutatingOperations /\ last'.err # "") =>
          UNCHANGED << custom_asset_ids, paks_for_asset_id, modified_resources,
                       ensured_asset_ids >>]_vars


\* What get_dependencies_for_asset(a) yields when the content of a is read
\* anew: the call on the manager as it is, its dependency cache emptied.
ReadAnew(a, must_exist) ==
    GetDependenciesForAsset([Self EXCEPT !.cached_dependencies = EmptyFn],
                            disk, target_game, a, must_exist).deps

\* C26: after replace_asset(a, d) or add_new_asset(a, d, ...) returned, a
\* get_dependencies_for_asset(a) that returns yields the dependencies of the
\* content d the asset has now, also when the dependencies of a had been
\* queried before the replacement.
C26_FreshAfterReplace ==
    (/\ last.op = "get_dependencies_for_asset"
     /\ last.err = ""
     /\ last.args.id \in DOMAIN given)
        => last.args.deps = ReadAnew(last.args.id, last.args.must_exist)


\* C27: termination. Every call of ensure_present, alone or from
\* add_new_asset, comes to an end on every asset graph, also when an asset
\* reaches itself through a cycle of dependencies: no call descends into an
\* asset that is already on its traversal path.
C27_EnsurePresentTerminates ==
    last.op \in {"ensure_present", "add_new_asset"} => last.err # "RecursionError"


\* The last call was a build_mlvl_dependencies(only_modified=True) that returned
RebuiltModifiedOnly(a) ==
    /\ a.last.op = "build_mlvl_dependencies"
    /\ a.last.err = ""
    /\ a.last.args.only_modified

\* C29: build_mlvl_dependencies(only_modified=True) leaves the stored list of
\* every layer whose modified flag is not set, and the non-layer list, exactly
\* as they were before the call: the same pairs in the same order, each as
\* many times as before.
C29_UnmodifiedListsKept ==
    [][RebuiltModifiedOnly(area') =>
          /\ Len(StoredLists(area')) = Len(StoredLists(area))
          /\ \A i \in 1..Len(area.layers) :
                ~IsModified(area.layers[i]) => StoredLists(area')[i] = StoredLists(area)[i]
          /\ StoredLists(area')[Len(area.layers) + 1]
                = StoredLists(area)[Len(area.layers) + 1]]_vars


\* C30: in every state reached through calls of add_layer, returned or not, the
\* list of layer names, the list of layer flags and the script-layer sections of
\* the MREA have the same length; and after an add_layer(name, active) that
\* returned, get_layer(name) gives the layer whose index is the number of layers
\* before the call.
C30_LayerListsAgree ==
    /\ Len(area.layer_names) = Len(area.flags)
    /\ Len(area.layer_names) = ScriptLayerCount
    /\ (area.last.op = "add_layer" /\ area.last.err = "")
          => GetLayer(area, area.last.args.name) = Len(area.layer_names) - 1

====
